---- MODULE Spec2Model ----
(***************************************************************************)
(* The DualShock4 output-report handle of src/core/Controller.hpp: the     *)
(* packed output packet, the constructor, the destructor, and the builder  *)
(* and send members the header declares.  The hidapi connection is the     *)
(* environment: every call made on it is appended to hidCalls.             *)
(***************************************************************************)
EXTENDS Integers, Sequences, FiniteSets, TLC

VARIABLES
    phase,                \* lifetime of the handle object
    openDeviceInfo,       \* the hid_device_info the constructor is given
    ptrSize,              \* sizeof(void *) of the build
    dev,                  \* DualShock4::dev
    isUsb,                \* DualShock4::isUsb
    controllerOutPacket,  \* *DualShock4::controllerOutPacket
    pktAlloc,             \* state of the calloc'ed block
    written,              \* payload fields a builder call has stored to
    nOps,                 \* calls counted against MaxOps so far
    sendStatus,           \* what the last send reported to its caller
    lastOp,               \* the member function that ran last
    copies,               \* live copies of the handle object (same pointers)
    nFree,                \* std::free calls made on the packet block
    hidCalls,             \* calls made on the hidapi connection, in order
    stdout,               \* lines printed to std::cout
    board,                \* RunChessConsole: chess::Board board
    history,              \* RunChessConsole: std::vector<chess::Move> history
    loop,                 \* the while (true) loop: running, ended or crashed
    lastLine,             \* the line the last iteration read
    said,                 \* what the last iteration printed after the prompt
    nCmds,                \* lines that changed board or history so far
    applied,              \* moves applied and not undone since the position
                          \* was last set
    basePos,              \* the position last set (start or accepted fen)
    before                \* the board as it was before each move of applied

handleVars ==
    <<phase, openDeviceInfo, ptrSize, dev, isUsb, controllerOutPacket,
      pktAlloc, written, nOps, sendStatus, lastOp, copies, nFree,
      hidCalls, stdout>>

consoleVars ==
    <<board, history, loop, lastLine, said, nCmds, applied, basePos, before>>

vars == <<handleVars, consoleVars>>

-----------------------------------------------------------------------------
(* Bounds *)

MaxOps == 3
MaxCopies == 1
MaxCmds == 4

-----------------------------------------------------------------------------
(* Program constants *)

SONY_INTERACTIVE_ENTERTAINMENT_VENDOR_ID == 1356
DUALSHOCK_4_CONTROLLER_PRO_ID == 2508

PADDING_LEN == 21

REPORT_ID_USB == 5
REPORT_ID_BT == 17

RESET_MARKER == 1

\* flag bits of payload.flags
RUMBLE_FLAG == 1
LED_FLAG == 2
BLINK_FLAG == 4

NULL == 0

\* unsigned short / unsigned char conversions
UShort(x) == x % 65536
UChar(x) == x % 256

\* sizeof(void *) on the builds the header compiles for
PointerSizes == {4, 8}

-----------------------------------------------------------------------------
(* Input domains *)

VendorIds == {SONY_INTERACTIVE_ENTERTAINMENT_VENDOR_ID, 1118}
ProductIds == {DUALSHOCK_4_CONTROLLER_PRO_ID, 1476}
\* usage as hidapi stores it: an unsigned short; UShort(-1) is the value
\* an enumeration that has no usage to report leaves in the field
NoUsage == UShort(-1)
Usages == {0, 5, NoUsage}

NullInfo == [isNull |-> TRUE, vendor_id |-> 0, product_id |-> 0, usage |-> 0]

DeviceInfos ==
    {NullInfo} \cup
    [isNull : {FALSE}, vendor_id : VendorIds, product_id : ProductIds,
     usage : Usages]

RumbleLevels == {<<0, 0>>, <<100, 200>>}
LedColors == {<<255, 0, 0>>, <<10, 20, 30>>}
Periods == {0, 50}

-----------------------------------------------------------------------------
(* Packet model: struct dualshock4_hid_out_payload / _packet, #pragma pack(1) *)

PayloadFields ==
    <<"flags", "reserved_unk", "Empty", "smallMotorPower", "largeMotorPower",
      "redLed", "greenLed", "blueLed", "ledFlashOnTime", "ledFlashOffTime">>

Zeros(n) == [i \in 1..n |-> 0]

SizeofPayload == Len(PayloadFields) + PADDING_LEN
SizeofPacket == 1 + SizeofPayload

\* The bytes of the packet in memory order (packed, no padding inserted).
Bytes(pkt) ==
    <<pkt.reportId>> \o [i \in 1..Len(PayloadFields) |-> pkt[PayloadFields[i]]]
        \o pkt.padding

\* The payload part of a byte image.
PayloadOf(bytes) == SubSeq(bytes, 2, Len(bytes))

ZeroPacket ==
    [reportId |-> 0, flags |-> 0, reserved_unk |-> 0, Empty |-> 0,
     smallMotorPower |-> 0, largeMotorPower |-> 0, redLed |-> 0,
     greenLed |-> 0, blueLed |-> 0, ledFlashOnTime |-> 0,
     ledFlashOffTime |-> 0, padding |-> Zeros(PADDING_LEN)]

\* memset(&payload, 0x00, sizeof(payload))
MemsetPayload(pkt) ==
    [ZeroPacket EXCEPT !.reportId = pkt.reportId]

\* NewPacket with malloc in place of calloc and no memset: the bytes that are
\* not stored to keep what the allocator left there
NewPacketUncleared(usb) ==
    [ZeroPacket EXCEPT
        !.reportId = IF usb = 1 THEN REPORT_ID_USB ELSE REPORT_ID_BT,
        !.Empty = 205,
        !.padding = [i \in 1..PADDING_LEN |-> 205]]

\* calloc(1, sizeof(packet)), the report id, then the memset of the payload
NewPacket(usb) ==
    MemsetPayload([ZeroPacket EXCEPT
        !.reportId = IF usb = 1 THEN REPORT_ID_USB ELSE REPORT_ID_BT])

\* payload.reserved_unk = 0x01
ResetPacket(pkt) == [pkt EXCEPT !.reserved_unk = RESET_MARKER]

-----------------------------------------------------------------------------
(* hidapi calls *)

HidCall(op, by, len, buf, ok, wr) ==
    [op |-> op, by |-> by, len |-> len,
     data |-> SubSeq(buf, 1, IF len < Len(buf) THEN len ELSE Len(buf)),
     buf |-> buf, ok |-> ok, written |-> wr]

HidOpen(ok) == HidCall("open", "ctor", 0, <<>>, ok, {})
HidError == HidCall("error", "ctor", 0, <<>>, TRUE, {})
HidClose == HidCall("close", "dtor", 0, <<>>, TRUE, {})
\* hid_send_output_report(dev, data, length): length bytes from data
HidWrite(by, pkt, len, ok, wr) == HidCall("write", by, len, Bytes(pkt), ok, wr)

-----------------------------------------------------------------------------
(* Constructor *)

\* ProductMismatch with the comparison inverted (== for !=)
ProductMismatchInverted(info) ==
    info.product_id = DUALSHOCK_4_CONTROLLER_PRO_ID

\* openDeviceInfo->product_id != DUALSHOCK_4_CONTROLLER_PRO_ID
ProductMismatch(info) == info.product_id # DUALSHOCK_4_CONTROLLER_PRO_ID

\* openDeviceInfo->usage == -1: the unsigned short is promoted to int, which
\* holds every unsigned short value unchanged, and compared with int -1
UsageIsMinusOne(info) == info.usage = -1

IsUsbOf(info) == IF UsageIsMinusOne(info) THEN 0 ELSE 1

Init ==
    /\ phase = "Unopened"
    /\ openDeviceInfo \in DeviceInfos
    /\ ptrSize \in PointerSizes
    /\ dev = NULL
    /\ isUsb = 0
    /\ controllerOutPacket = ZeroPacket
    /\ pktAlloc = "none"
    /\ written = {}
    /\ nOps = 0
    /\ sendStatus = "none"
    /\ lastOp = "none"
    /\ copies = 0
    /\ nFree = 0
    /\ hidCalls = <<>>
    /\ stdout = <<>>
    /\ board = [pos |-> 0, prev |-> <<>>]
    /\ history = <<>>
    /\ loop = "idle"
    /\ lastLine = 0
    /\ said = <<>>
    /\ nCmds = 0
    /\ applied = <<>>
    /\ basePos = 0
    /\ before = <<>>

CtorNull ==
    /\ phase = "Unopened"
    /\ openDeviceInfo.isNull
    /\ stdout' = Append(stdout, "The given openning device infor pointer is NULL")
    /\ phase' = "Aborted"
    /\ lastOp' = "DualShock4"
    /\ UNCHANGED consoleVars
    /\ UNCHANGED <<copies, nFree>>
    /\ UNCHANGED <<openDeviceInfo, ptrSize, dev, isUsb, controllerOutPacket,
                   pktAlloc, written, nOps, sendStatus, hidCalls>>

CtorMismatch ==
    /\ phase = "Unopened"
    /\ ~openDeviceInfo.isNull
    /\ ProductMismatch(openDeviceInfo)
    /\ stdout' = Append(stdout, "Controller type mismathced")
    /\ phase' = "Aborted"
    /\ lastOp' = "DualShock4"
    /\ UNCHANGED consoleVars
    /\ UNCHANGED <<copies, nFree>>
    /\ UNCHANGED <<openDeviceInfo, ptrSize, dev, isUsb, controllerOutPacket,
                   pktAlloc, written, nOps, sendStatus, hidCalls>>

\* OpenFailCalls running the teardown sequence on the failed open
OpenFailCallsWithTeardown ==
    <<HidOpen(FALSE), HidError,
      HidWrite("dtor", ResetPacket(controllerOutPacket), ptrSize, FALSE, {}),
      HidClose>>

\* hid_open returns NULL: hid_error(NULL), then std::abort(), which runs no
\* destructor
OpenFailCalls == <<HidOpen(FALSE), HidError>>

CtorOpenFails ==
    /\ phase = "Unopened"
    /\ ~openDeviceInfo.isNull
    /\ ~ProductMismatch(openDeviceInfo)
    /\ hidCalls' = hidCalls \o OpenFailCalls
    /\ phase' = "Aborted"
    /\ lastOp' = "DualShock4"
    /\ UNCHANGED consoleVars
    /\ UNCHANGED <<copies, nFree>>
    /\ UNCHANGED <<openDeviceInfo, ptrSize, dev, isUsb, controllerOutPacket,
                   pktAlloc, written, nOps, sendStatus, stdout>>

\* calloc returns NULL: the store of the report id goes through a null
\* pointer and the process faults
CtorAllocFails ==
    /\ phase = "Unopened"
    /\ ~openDeviceInfo.isNull
    /\ ~ProductMismatch(openDeviceInfo)
    /\ hidCalls' = Append(hidCalls, HidOpen(TRUE))
    /\ dev' = 1
    /\ isUsb' = IsUsbOf(openDeviceInfo)
    /\ phase' = "Crashed"
    /\ lastOp' = "DualShock4"
    /\ UNCHANGED consoleVars
    /\ UNCHANGED <<copies, nFree>>
    /\ UNCHANGED <<openDeviceInfo, ptrSize, controllerOutPacket, pktAlloc,
                   written, nOps, sendStatus, stdout>>

CtorOpens ==
    /\ phase = "Unopened"
    /\ ~openDeviceInfo.isNull
    /\ ~ProductMismatch(openDeviceInfo)
    /\ hidCalls' = Append(hidCalls, HidOpen(TRUE))
    /\ dev' = 1
    /\ isUsb' = IsUsbOf(openDeviceInfo)
    /\ controllerOutPacket' = NewPacket(IsUsbOf(openDeviceInfo))
    /\ pktAlloc' = "live"
    /\ phase' = "Open"
    /\ lastOp' = "DualShock4"
    /\ UNCHANGED consoleVars
    /\ UNCHANGED <<copies, nFree>>
    /\ UNCHANGED <<openDeviceInfo, ptrSize, written, nOps, sendStatus, stdout>>

DualShock4 ==
    CtorNull \/ CtorMismatch \/ CtorOpenFails \/ CtorAllocFails \/ CtorOpens

-----------------------------------------------------------------------------
(* Destructor *)

\* sizeof(this->controllerOutPacket): the size of the pointer member
DtorWriteLength == ptrSize

\* DtorCalls closing the connection before the reset write
DtorCallsCloseFirst(d, pkt, len, ok, wr) ==
    (IF d # NULL THEN <<HidClose>> ELSE <<>>)
        \o <<HidWrite("dtor", pkt, len, ok, wr)>>

\* DtorCalls returning early when the reset write fails
DtorCallsStopOnError(d, pkt, len, ok, wr) ==
    <<HidWrite("dtor", pkt, len, ok, wr)>>
        \o (IF d # NULL /\ ok THEN <<HidClose>> ELSE <<>>)

\* the hidapi calls of the destructor, in program order
DtorCalls(d, pkt, len, ok, wr) ==
    <<HidWrite("dtor", pkt, len, ok, wr)>>
        \o (IF d # NULL THEN <<HidClose>> ELSE <<>>)

\* what the destructor prints; the result of the write is not looked at
DtorOutput(ok) == <<"test1", "test1">>

DualShock4Dtor ==
    /\ phase = "Open"
    /\ \E ok \in BOOLEAN :
        /\ hidCalls' = hidCalls \o
              DtorCalls(dev, ResetPacket(controllerOutPacket),
                        DtorWriteLength, ok, written)
        /\ stdout' = stdout \o DtorOutput(ok)
    /\ controllerOutPacket' = ResetPacket(controllerOutPacket)
    /\ pktAlloc' = "freed"
    /\ phase' = "Closed"
    /\ lastOp' = "~DualShock4"
    /\ UNCHANGED consoleVars
    /\ nFree' = nFree + 1
    /\ UNCHANGED copies
    /\ UNCHANGED <<openDeviceInfo, ptrSize, dev, isUsb, written, nOps,
                   sendStatus>>

-----------------------------------------------------------------------------
(* Builder members and send: declared in the header, defined elsewhere *)

HasBit(f, b) == (f \div b) % 2 = 1
SetBit(f, b) == IF HasBit(f, b) THEN f ELSE f + b

Builder(name, pkt, wr) ==
    /\ phase = "Open"
    /\ nOps < MaxOps
    /\ controllerOutPacket' = pkt
    /\ written' = written \cup wr
    /\ nOps' = nOps + 1
    /\ lastOp' = name
    /\ UNCHANGED consoleVars
    /\ UNCHANGED <<copies, nFree>>
    /\ UNCHANGED <<phase, openDeviceInfo, ptrSize, dev, isUsb, pktAlloc,
                   sendStatus, hidCalls, stdout>>

enableRumble ==
    Builder("enableRumble",
            [controllerOutPacket EXCEPT !.flags = SetBit(@, RUMBLE_FLAG)],
            {"flags"})

enableLED ==
    Builder("enableLED",
            [controllerOutPacket EXCEPT !.flags = SetBit(@, LED_FLAG)],
            {"flags"})

enableLEDBlink ==
    Builder("enableLEDBlink",
            [controllerOutPacket EXCEPT !.flags = SetBit(@, BLINK_FLAG)],
            {"flags"})

setRumBle ==
    \E lv \in RumbleLevels :
        Builder("setRumBle",
                [controllerOutPacket EXCEPT !.smallMotorPower = UChar(lv[1]),
                                            !.largeMotorPower = UChar(lv[2])],
                {"smallMotorPower", "largeMotorPower"})

\* setLEDColor that rebuilds the payload from zero before storing the colour
setLEDColorResetsOthers ==
    \E c \in LedColors :
        Builder("setLEDColor",
                [MemsetPayload(controllerOutPacket) EXCEPT
                    !.redLed = UChar(c[1]),
                    !.greenLed = UChar(c[2]),
                    !.blueLed = UChar(c[3])],
                {"redLed", "greenLed", "blueLed"})

setLEDColor ==
    \E c \in LedColors :
        Builder("setLEDColor",
                [controllerOutPacket EXCEPT !.redLed = UChar(c[1]),
                                            !.greenLed = UChar(c[2]),
                                            !.blueLed = UChar(c[3])],
                {"redLed", "greenLed", "blueLed"})

setLEDOnPeriod ==
    \E p \in Periods :
        Builder("setLEDOnPeriod",
                [controllerOutPacket EXCEPT !.ledFlashOnTime = UChar(p)],
                {"ledFlashOnTime"})

setLEDOffPeriod ==
    \E p \in Periods :
        Builder("setLEDOffPeriod",
                [controllerOutPacket EXCEPT !.ledFlashOffTime = UChar(p)],
                {"ledFlashOffTime"})

\* SendCalls writing a second time when the first write fails
SendCallsRetry(pkt, ok, wr) ==
    IF ok THEN <<HidWrite("send", pkt, SizeofPacket, ok, wr)>>
    ELSE <<HidWrite("send", pkt, SizeofPacket, ok, wr),
           HidWrite("send", pkt, SizeofPacket, ok, wr)>>

\* the single write of one send: the whole packet
SendCalls(pkt, ok, wr) == <<HidWrite("send", pkt, SizeofPacket, ok, wr)>>

\* what send reports to its caller
SendReturn(ok) == IF ok THEN "ok" ELSE "failed"

send ==
    /\ phase = "Open"
    /\ nOps < MaxOps
    /\ \E ok \in BOOLEAN :
        /\ hidCalls' = hidCalls \o SendCalls(controllerOutPacket, ok, written)
        /\ sendStatus' = SendReturn(ok)
    /\ nOps' = nOps + 1
    /\ lastOp' = "send"
    /\ UNCHANGED consoleVars
    /\ UNCHANGED <<copies, nFree>>
    /\ UNCHANGED <<phase, openDeviceInfo, ptrSize, dev, isUsb,
                   controllerOutPacket, pktAlloc, written, stdout>>

-----------------------------------------------------------------------------
(* Copies of the handle: the class declares no copy constructor and no copy
   assignment, so the implicit ones copy dev and controllerOutPacket as
   pointers *)

\* what a read of the packet block gives once the block was freed
FreedBlockImages(pkt) == {pkt, NewPacketUncleared(isUsb)}

\* DualShock4 b = a;
CopyHandle ==
    /\ phase = "Open"
    /\ copies < MaxCopies
    /\ nOps < MaxOps
    /\ copies' = copies + 1
    /\ nOps' = nOps + 1
    /\ lastOp' = "copy"
    /\ UNCHANGED consoleVars
    /\ UNCHANGED <<phase, openDeviceInfo, ptrSize, dev, isUsb,
                   controllerOutPacket, pktAlloc, written, sendStatus,
                   nFree, hidCalls, stdout>>

\* the destructor running on a copy: the same body, on the same pointers
CopyDtor ==
    /\ copies > 0
    /\ phase \in {"Open", "Closed"}
    /\ \E ok \in BOOLEAN :
       \E img \in (IF pktAlloc = "freed"
                   THEN FreedBlockImages(controllerOutPacket)
                   ELSE {controllerOutPacket}) :
        /\ hidCalls' = hidCalls \o
              DtorCalls(dev, ResetPacket(img), DtorWriteLength, ok, written)
        /\ stdout' = stdout \o DtorOutput(ok)
        /\ controllerOutPacket' = ResetPacket(img)
    /\ pktAlloc' = "freed"
    /\ nFree' = nFree + 1
    /\ copies' = copies - 1
    /\ lastOp' = "~DualShock4(copy)"
    /\ UNCHANGED consoleVars
    /\ UNCHANGED <<phase, openDeviceInfo, ptrSize, dev, isUsb, written, nOps,
                   sendStatus>>

\* a member function running on pointers that were already released may
\* fault instead of going on
FaultOnDangling ==
    /\ pktAlloc = "freed"
    /\ \/ phase = "Open"
       \/ phase = "Closed" /\ copies > 0
    /\ phase' = "Crashed"
    /\ lastOp' = "fault"
    /\ UNCHANGED consoleVars
    /\ UNCHANGED <<openDeviceInfo, ptrSize, dev, isUsb, controllerOutPacket,
                   pktAlloc, written, nOps, sendStatus, copies, nFree,
                   hidCalls, stdout>>

-----------------------------------------------------------------------------

Next ==
    \/ DualShock4
    \/ DualShock4Dtor
    \/ enableRumble
    \/ enableLED
    \/ enableLEDBlink
    \/ setRumBle
    \/ setLEDColor
    \/ setLEDOnPeriod
    \/ setLEDOffPeriod
    \/ send

Spec == Init /\ [][Next]_vars

CopyNext == Next \/ CopyHandle \/ CopyDtor \/ FaultOnDangling

CopySpec == Init /\ [][CopyNext]_vars

-----------------------------------------------------------------------------
(* The chess console of RunChessConsole.  chess::Board, chess::Move,
   chess::movegen and chess::uci are the library the console calls; they are
   modelled by the rules of chess on the positions the console can reach. *)

Squares == 0..63
File(s) == s % 8
Rank(s) == s \div 8
Sq(f, r) == r * 8 + f
Abs(x) == IF x < 0 THEN 0 - x ELSE x
Sign(x) == IF x < 0 THEN 0 - 1 ELSE IF x > 0 THEN 1 ELSE 0
MaxOf(a, b) == IF a > b THEN a ELSE b

NONE == "."
WhitePieces == {"P", "N", "B", "R", "Q", "K"}
BlackPieces == {"p", "n", "b", "r", "q", "k"}
ColorOf(pc) ==
    IF pc \in WhitePieces THEN "w" ELSE IF pc \in BlackPieces THEN "b" ELSE "-"
Other(c) == IF c = "w" THEN "b" ELSE "w"
\* the piece of type t ("P", "N", ...) for colour c
PieceOf(t, c) ==
    IF c = "w" THEN t
    ELSE CASE t = "P" -> "p" [] t = "N" -> "n" [] t = "B" -> "b"
           [] t = "R" -> "r" [] t = "Q" -> "q" [] OTHER -> "k"
TypeOf(pc) ==
    CASE pc \in {"P", "p"} -> "P" [] pc \in {"N", "n"} -> "N"
      [] pc \in {"B", "b"} -> "B" [] pc \in {"R", "r"} -> "R"
      [] pc \in {"Q", "q"} -> "Q" [] pc \in {"K", "k"} -> "K"
      [] OTHER -> NONE

\* chess::Move: source, target, type, promotion piece
Move(from, to, type, promo) ==
    [from |-> from, to |-> to, type |-> type, promo |-> promo]
Normal(from, to) == Move(from, to, "NORMAL", "N")
\* Move::NO_MOVE is the all-zero move: a1 to a1, normal, no promotion bits
NO_MOVE == Normal(0, 0)

\* every square strictly between from and to on a line is empty
PathClear(sq, from, to) ==
    LET df == Sign(File(to) - File(from))
        dr == Sign(Rank(to) - Rank(from))
        n == MaxOf(Abs(File(to) - File(from)), Abs(Rank(to) - Rank(from)))
    IN \A k \in 1..(n - 1) : sq[Sq(File(from) + k * df, Rank(from) + k * dr)] = NONE

\* a piece of type t on from reaches to (not for pawns)
Reaches(sq, t, from, to) ==
    LET df == Abs(File(to) - File(from))
        dr == Abs(Rank(to) - Rank(from))
    IN /\ from # to
       /\ CASE t = "N" -> (df = 1 /\ dr = 2) \/ (df = 2 /\ dr = 1)
            [] t = "K" -> df <= 1 /\ dr <= 1
            [] t = "R" -> (df = 0 \/ dr = 0) /\ PathClear(sq, from, to)
            [] t = "B" -> df = dr /\ PathClear(sq, from, to)
            [] t = "Q" -> (df = 0 \/ dr = 0 \/ df = dr) /\ PathClear(sq, from, to)
            [] OTHER -> FALSE

\* the direction pawns of colour c advance in
Forward(c) == IF c = "w" THEN 1 ELSE 0 - 1

\* a pawn of colour c on from attacks to
PawnAttacks(c, from, to) ==
    /\ Abs(File(to) - File(from)) = 1
    /\ Rank(to) - Rank(from) = Forward(c)

\* square s is attacked by a piece of colour c
Attacked(sq, s, c) ==
    \E t \in Squares :
        /\ ColorOf(sq[t]) = c
        /\ IF TypeOf(sq[t]) = "P" THEN PawnAttacks(c, t, s)
           ELSE Reaches(sq, TypeOf(sq[t]), t, s)

KingSquares(sq, c) == {s \in Squares : sq[s] = PieceOf("K", c)}

\* Board::inCheck for colour c
InCheck(sq, c) == \E k \in KingSquares(sq, c) : Attacked(sq, k, Other(c))

BackRank(c) == IF c = "w" THEN 0 ELSE 7
PromoRank(c) == IF c = "w" THEN 7 ELSE 0
PawnStartRank(c) == IF c = "w" THEN 1 ELSE 6

\* the pieces after a move (Board::makeMove, the placement part)
MovePieces(sq, c, m) ==
    CASE m.type = "CASTLING" ->
            LET kingSide == m.to > m.from
                kto == Sq(IF kingSide THEN 6 ELSE 2, Rank(m.from))
                rto == Sq(IF kingSide THEN 5 ELSE 3, Rank(m.from))
                cleared == [sq EXCEPT ![m.from] = NONE, ![m.to] = NONE]
            IN [cleared EXCEPT ![kto] = PieceOf("K", c), ![rto] = PieceOf("R", c)]
      [] m.type = "PROMOTION" ->
            [sq EXCEPT ![m.from] = NONE, ![m.to] = PieceOf(m.promo, c)]
      [] m.type = "ENPASSANT" ->
            [sq EXCEPT ![m.from] = NONE, ![m.to] = sq[m.from],
                       ![Sq(File(m.to), Rank(m.from))] = NONE]
      [] OTHER ->
            [sq EXCEPT ![m.from] = NONE, ![m.to] = sq[m.from]]

PromoPieces == {"N", "B", "R", "Q"}

\* pawn moves from s, legality of the king's position not yet looked at
PawnMoves(pos, s) ==
    LET c == pos.stm
        sq == pos.sq
        r1 == Rank(s) + Forward(c)
        one == Sq(File(s), r1)
        two == Sq(File(s), r1 + Forward(c))
        Expand(to) ==
            IF Rank(to) = PromoRank(c)
            THEN {Move(s, to, "PROMOTION", p) : p \in PromoPieces}
            ELSE {Normal(s, to)}
        pushes ==
            IF r1 \in 0..7 /\ sq[one] = NONE
            THEN Expand(one) \cup
                 (IF Rank(s) = PawnStartRank(c) /\ sq[two] = NONE
                  THEN {Normal(s, two)} ELSE {})
            ELSE {}
        captures ==
            UNION {Expand(t) : t \in {t \in Squares :
                        PawnAttacks(c, s, t) /\ ColorOf(sq[t]) = Other(c)}}
        enpassant ==
            {Move(s, t, "ENPASSANT", "N") : t \in {t \in Squares :
                        pos.ep = t /\ PawnAttacks(c, s, t)}}
    IN pushes \cup captures \cup enpassant

\* moves of a knight, bishop, rook, queen or king from s
PieceMoves(pos, s) ==
    {Normal(s, t) : t \in {t \in Squares :
        /\ ColorOf(pos.sq[t]) # pos.stm
        /\ Reaches(pos.sq, TypeOf(pos.sq[s]), s, t)}}

\* castling moves of the king on s, written king-takes-own-rook
CastlingMoves(pos, s) ==
    LET c == pos.stm
        sq == pos.sq
        r == BackRank(c)
        Can(right, rookFile, kingTo, rookTo) ==
            /\ right \in pos.cr
            /\ s = Sq(4, r)
            /\ sq[Sq(rookFile, r)] = PieceOf("R", c)
            /\ PathClear(sq, s, Sq(rookFile, r))
            /\ \A f \in (IF kingTo > 4 THEN 4..kingTo ELSE kingTo..4) :
                    ~Attacked(sq, Sq(f, r), Other(c))
    IN (IF Can(PieceOf("K", c), 7, 6, 5)
        THEN {Move(s, Sq(7, r), "CASTLING", "N")} ELSE {})
       \cup
       (IF Can(PieceOf("Q", c), 0, 2, 3)
        THEN {Move(s, Sq(0, r), "CASTLING", "N")} ELSE {})

PseudoMoves(pos) ==
    UNION {
        CASE TypeOf(pos.sq[s]) = "P" -> PawnMoves(pos, s)
          [] TypeOf(pos.sq[s]) = "K" -> PieceMoves(pos, s) \cup CastlingMoves(pos, s)
          [] OTHER -> PieceMoves(pos, s)
        : s \in {s \in Squares : ColorOf(pos.sq[s]) = pos.stm}}

\* movegen::legalmoves: the moves that do not leave the own king attacked
legalmoves(pos) ==
    {m \in PseudoMoves(pos) : ~InCheck(MovePieces(pos.sq, pos.stm, m), pos.stm)}

NO_SQ == 64

\* the state of a chess::Board apart from its stack of earlier states
Position(sq, stm, cr, ep, hm, plies) ==
    [sq |-> sq, stm |-> stm, cr |-> cr, ep |-> ep, hm |-> hm, plies |-> plies]

BackRow == <<"R", "N", "B", "Q", "K", "B", "N", "R">>

\* chess::Board board; -- the standard starting position
StartPosition ==
    Position([s \in Squares |->
                 CASE Rank(s) = 0 -> BackRow[File(s) + 1]
                   [] Rank(s) = 1 -> "P"
                   [] Rank(s) = 6 -> "p"
                   [] Rank(s) = 7 -> PieceOf(BackRow[File(s) + 1], "b")
                   [] OTHER -> NONE],
             "w", {"K", "Q", "k", "q"}, NO_SQ, 0, 0)

\* Board::reset: no pieces, white to move, nothing else set
EmptyPosition == Position([s \in Squares |-> NONE], "w", {}, NO_SQ, 0, 0)

\* the castling right lost when a rook of colour c leaves or is taken on s
RookRight(sq, c, s) ==
    IF Rank(s) # BackRank(c) THEN {}
    ELSE IF File(s) = 7 /\ \E k \in KingSquares(sq, c) : s > k
         THEN {PieceOf("K", c)}
    ELSE IF File(s) = 0 /\ \E k \in KingSquares(sq, c) : s < k
         THEN {PieceOf("Q", c)}
    ELSE {}

\* what Board::makeMove pushes for unmakeMove: castling rights, en passant
\* square, half-move clock and the piece found on the target square
SavedState(pos, m) ==
    [cr |-> pos.cr, ep |-> pos.ep, hm |-> pos.hm, captured |-> pos.sq[m.to]]

\* Board::makeMove, the position it leaves
MakePosition(pos, m) ==
    LET c == pos.stm
        sq == pos.sq
        captured == sq[m.to]
        capture == captured # NONE /\ m.type # "CASTLING"
        pt == TypeOf(sq[m.from])
        crCapture ==
            IF capture /\ TypeOf(captured) = "R"
            THEN pos.cr \ RookRight(sq, Other(c), m.to) ELSE pos.cr
        crMover ==
            IF pt = "K" THEN crCapture \ {PieceOf("K", c), PieceOf("Q", c)}
            ELSE IF pt = "R" THEN crCapture \ RookRight(sq, c, m.from)
            ELSE crCapture
        epSq == Sq(File(m.to), Rank(m.from) + Forward(c))
        ep ==
            IF /\ pt = "P"
               /\ Abs(m.to - m.from) = 16
               /\ \E t \in Squares :
                     sq[t] = PieceOf("P", Other(c)) /\ PawnAttacks(c, epSq, t)
            THEN epSq ELSE NO_SQ
        hm == IF capture \/ pt = "P" THEN 0 ELSE pos.hm + 1
    IN Position(MovePieces(sq, c, m), Other(c), crMover, ep, hm, pos.plies + 1)

\* Board::unmakeMove(move), the position it leaves: the saved state is put
\* back and the pieces are moved back as the move says
UnmakePosition(pos, prev, m) ==
    LET c == Other(pos.stm)
        sq == pos.sq
        back ==
            CASE m.type = "CASTLING" ->
                    LET kingSide == m.to > m.from
                        kto == Sq(IF kingSide THEN 6 ELSE 2, Rank(m.from))
                        rto == Sq(IF kingSide THEN 5 ELSE 3, Rank(m.from))
                        cleared == [sq EXCEPT ![kto] = NONE, ![rto] = NONE]
                    IN [cleared EXCEPT ![m.from] = PieceOf("K", c),
                                       ![m.to] = PieceOf("R", c)]
              [] m.type = "PROMOTION" ->
                    [sq EXCEPT ![m.to] = prev.captured,
                               ![m.from] = PieceOf("P", c)]
              [] m.type = "ENPASSANT" ->
                    [sq EXCEPT ![m.to] = NONE, ![m.from] = sq[m.to],
                               ![Sq(File(m.to), Rank(m.from))] =
                                    PieceOf("P", Other(c))]
              [] OTHER ->
                    [sq EXCEPT ![m.to] = prev.captured, ![m.from] = sq[m.to]]
    IN Position(back, c, prev.cr, prev.ep, prev.hm, pos.plies - 1)

\* a chess::Board: the position and the stack of saved states (prev_states_)
Board(pos, prev) == [pos |-> pos, prev |-> prev]

makeMove(b, m) ==
    Board(MakePosition(b.pos, m), Append(b.prev, SavedState(b.pos, m)))

unmakeMove(b, m) ==
    Board(UnmakePosition(b.pos, b.prev[Len(b.prev)], m),
          SubSeq(b.prev, 1, Len(b.prev) - 1))

sideToMove(b) == b.pos.stm

\* Board::isInsufficientMaterial
SameColorSquares(a, b) == (File(a) + Rank(a)) % 2 = (File(b) + Rank(b)) % 2

PiecesAt(sq, pc) == {s \in Squares : sq[s] = pc}

isInsufficientMaterial(pos) ==
    LET sq == pos.sq
        count == Cardinality({s \in Squares : sq[s] # NONE})
        wb == PiecesAt(sq, "B")
        bb == PiecesAt(sq, "b")
    IN \/ count = 2
       \/ /\ count = 3
          /\ wb \cup bb \cup PiecesAt(sq, "N") \cup PiecesAt(sq, "n") # {}
       \/ /\ count = 4
          /\ \/ \E a \in wb : \E b \in bb : SameColorSquares(a, b)
             \/ \E a \in wb : \E b \in wb : a # b /\ SameColorSquares(a, b)
             \/ \E a \in bb : \E b \in bb : a # b /\ SameColorSquares(a, b)

HALF_MOVE_DRAW == 100

\* Board::isGameOver: <<reason, result>>.  Repetition asks for two earlier
\* occurrences of the position, eight plies at least, which no run within
\* MaxCmds makes.
isGameOver(b) ==
    LET pos == b.pos
        noMoves == legalmoves(pos) = {}
        mated == noMoves /\ InCheck(pos.sq, pos.stm)
    IN IF pos.hm >= HALF_MOVE_DRAW
       THEN (IF mated THEN <<"CHECKMATE", "LOSE">>
             ELSE <<"FIFTY_MOVE_RULE", "DRAW">>)
       ELSE IF isInsufficientMaterial(pos)
       THEN <<"INSUFFICIENT_MATERIAL", "DRAW">>
       ELSE IF mated THEN <<"CHECKMATE", "LOSE">>
       ELSE IF noMoves THEN <<"STALEMATE", "DRAW">>
       ELSE <<"NONE", "NONE">>

\* the position with the pieces pl (square :> piece) and nothing else
Setup(pl, stm, hm, plies) ==
    Position([s \in Squares |-> IF s \in DOMAIN pl THEN pl[s] ELSE NONE],
             stm, {}, NO_SQ, hm, plies)

\* the FEN texts typed after "fen ", with the position each one describes
\* 7k/5Q2/5K2/8/8/8/8/8 w - - 0 1
FenWhiteMates ==
    Setup(Sq(7, 7) :> "k" @@ Sq(5, 6) :> "Q" @@ Sq(5, 5) :> "K", "w", 0, 0)
\* 8/8/8/8/8/5k2/5q2/7K b - - 0 1
FenBlackMates ==
    Setup(Sq(5, 2) :> "k" @@ Sq(5, 1) :> "q" @@ Sq(7, 0) :> "K", "b", 0, 1)
\* 4k3/8/8/8/8/8/3p4/4K3 w - - 99 60
FenLoneKings ==
    Setup(Sq(4, 7) :> "k" @@ Sq(3, 1) :> "p" @@ Sq(4, 0) :> "K", "w", 99, 118)

FenTexts == {"whiteMates", "blackMates", "loneKings", "notAFen"}

FenValid(text) == text \in {"whiteMates", "blackMates", "loneKings"}

FenPosition(text) ==
    CASE text = "whiteMates" -> FenWhiteMates
      [] text = "blackMates" -> FenBlackMates
      [] OTHER -> FenLoneKings

\* Board::setFen(fen): <<accepted, the boards it may leave>>.  An accepted
\* text sets the position and empties the stack of saved states.  A rejected
\* text leaves the board as it was or as Board::reset makes it, depending on
\* where the library gives up.
setFen(b, text) ==
    IF FenValid(text)
    THEN <<TRUE, {Board(FenPosition(text), <<>>)}>>
    ELSE <<FALSE, {b, Board(EmptyPosition, <<>>)}>>

\* the typed lines, after the trimming of lines 38-41
Line(kind, text, from, to, piece) ==
    [kind |-> kind, text |-> text, from |-> from, to |-> to, piece |-> piece]

\* coordinate moves: isUciMove holds of them
UciLines ==
    {Line("uci", "", m[1], m[2], NONE) : m \in {
        <<Sq(4, 1), Sq(4, 3)>>,   \* e2e4
        <<Sq(3, 6), Sq(3, 4)>>,   \* d7d5
        <<Sq(4, 3), Sq(3, 4)>>,   \* e4d5
        <<Sq(4, 1), Sq(4, 4)>>,   \* e2e5
        <<Sq(0, 0), Sq(0, 0)>>,   \* a1a1
        <<Sq(5, 6), Sq(6, 6)>>,   \* f7g7
        <<Sq(5, 5), Sq(6, 5)>>,   \* f6g6
        <<Sq(5, 1), Sq(6, 1)>>,   \* f2g2
        <<Sq(4, 0), Sq(3, 1)>>,   \* e1d2
        <<Sq(4, 0), Sq(4, 1)>>,   \* e1e2
        <<Sq(5, 6), Sq(5, 7)>>}}  \* f7f8

\* algebraic moves (a piece letter and a target) and text that is no move
SanLines ==
    {Line("san", "Nf3", 0, Sq(5, 2), "N"), Line("san", "hello", 0, 0, NONE)}

MoveLines == UciLines \cup SanLines

FenLines == {Line("fen", t, 0, 0, NONE) : t \in FenTexts}

\* uci::isUciMove(line)
isUciMove(line) == line.kind = "uci"

\* uci::uciToMove(board, line): the move is built from the squares, with the
\* type the piece on the source square calls for; legality is not looked at
uciToMove(b, line) ==
    LET sq == b.pos.sq
        pt == TypeOf(sq[line.from])
    IN IF pt = "K" /\ Abs(File(line.to) - File(line.from)) = 2
                   /\ Rank(line.to) = Rank(line.from)
       THEN Move(line.from,
                 Sq(IF line.to > line.from THEN 7 ELSE 0, Rank(line.from)),
                 "CASTLING", "N")
       ELSE IF pt = "P" /\ line.to = b.pos.ep
       THEN Move(line.from, line.to, "ENPASSANT", "N")
       ELSE Normal(line.from, line.to)

\* uci::parseSan(board, line), with the catch of lines 80-84: the one legal
\* move of the named piece to the named square, NO_MOVE when parseSan throws
parseSan(b, line) ==
    LET found == {m \in legalmoves(b.pos) :
                    /\ line.piece # NONE
                    /\ TypeOf(b.pos.sq[m.from]) = line.piece
                    /\ m.to = line.to
                    /\ m.type = "NORMAL"}
    IN IF Cardinality(found) = 1 THEN CHOOSE m \in found : TRUE ELSE NO_MOVE

\* lines 74-85
ParseMove(b, line) ==
    IF isUciMove(line) THEN uciToMove(b, line) ELSE parseSan(b, line)

IsLegalAnything(b, m) == TRUE

\* lines 93-101
IsLegal(b, m) == \E l \in legalmoves(b.pos) : l = m

ColorName(c) == IF c = "w" THEN "White" ELSE "Black"

GameOverTextSideToMoveWins(b, over) ==
    IF over[2] = "DRAW" THEN <<"Game over: ", "Draw", over[1]>>
    ELSE IF over[2] = "LOSE"
    THEN <<"Game over: ",
           IF sideToMove(b) = "w" THEN "White wins" ELSE "Black wins",
           over[1]>>
    ELSE <<"Game over: ", over[1]>>

\* lines 121-141: what is printed once the game is over
GameOverText(b, over) ==
    IF over[2] = "DRAW" THEN <<"Game over: ", "Draw", over[1]>>
    ELSE IF over[2] = "LOSE"
    THEN <<"Game over: ",
           IF sideToMove(b) = "w" THEN "Black wins" ELSE "White wins",
           over[1]>>
    ELSE <<"Game over: ", over[1]>>

\* the library works on a board with both kings; without them (after
\* Board::reset) move generation reads a king square that does not exist
HasKings(b) ==
    KingSquares(b.pos.sq, "w") # {} /\ KingSquares(b.pos.sq, "b") # {}

-----------------------------------------------------------------------------
(* RunChessConsole: one action for each kind of line an iteration of the
   loop can read *)

NoLine == Line("none", "", 0, 0, NONE)

ConsoleStart ==
    /\ board = Board(StartPosition, <<>>)
    /\ history = <<>>
    /\ loop = "running"
    /\ lastLine = NoLine
    /\ said = <<>>
    /\ nCmds = 0
    /\ applied = <<>>
    /\ basePos = StartPosition
    /\ before = <<>>

\* the handle is not in use while the console runs
HandleIdle ==
    /\ phase = "Unopened"
    /\ openDeviceInfo = NullInfo
    /\ ptrSize = CHOOSE p \in PointerSizes : TRUE
    /\ dev = NULL
    /\ isUsb = 0
    /\ controllerOutPacket = ZeroPacket
    /\ pktAlloc = "none"
    /\ written = {}
    /\ nOps = 0
    /\ sendStatus = "none"
    /\ lastOp = "none"
    /\ copies = 0
    /\ nFree = 0
    /\ hidCalls = <<>>
    /\ stdout = <<>>

ConsoleInit == HandleIdle /\ ConsoleStart

\* lines 34-36: getline fails
ReadEof ==
    /\ loop = "running"
    /\ loop' = "ended"
    /\ lastLine' = Line("eof", "", 0, 0, NONE)
    /\ said' = <<>>
    /\ UNCHANGED <<board, history, nCmds, applied, basePos, before>>
    /\ UNCHANGED handleVars

\* line 43: nothing is left after trimming
ReadEmpty ==
    /\ loop = "running"
    /\ lastLine' = Line("empty", "", 0, 0, NONE)
    /\ said' = <<>>
    /\ UNCHANGED <<board, history, loop, nCmds, applied, basePos, before>>
    /\ UNCHANGED handleVars

\* lines 45-48
ReadQuit ==
    /\ loop = "running"
    /\ \E text \in {"quit", "exit"} : lastLine' = Line("quit", text, 0, 0, NONE)
    /\ said' = <<"Goodbye.">>
    /\ loop' = "ended"
    /\ UNCHANGED <<board, history, nCmds, applied, basePos, before>>
    /\ UNCHANGED handleVars

\* line 52: the move the console hands to unmakeMove is history.back()
UndoMoveFront(h) == h[1]

UndoMove(h) == h[Len(h)]

\* lines 50-59
ReadUndo ==
    /\ loop = "running"
    /\ lastLine' = Line("undo", "undo", 0, 0, NONE)
    /\ IF history = <<>>
       THEN /\ said' = <<"No moves to undo.">>
            /\ UNCHANGED <<board, history, loop, nCmds, applied, before>>
       ELSE /\ nCmds < MaxCmds
            /\ nCmds' = nCmds + 1
            /\ said' = <<>>
            /\ history' = SubSeq(history, 1, Len(history) - 1)
            /\ applied' = SubSeq(applied, 1, Len(applied) - 1)
            /\ before' = SubSeq(before, 1, Len(before) - 1)
            /\ IF board.prev # <<>>
               THEN /\ board' = unmakeMove(board, UndoMove(history))
                    /\ UNCHANGED loop
               ELSE \* unmakeMove reads the back of an empty stack
                    /\ loop' \in {"running", "crashed"}
                    /\ UNCHANGED board
    /\ UNCHANGED basePos
    /\ UNCHANGED handleVars

\* lines 64-66: the history is cleared when setFen accepts the text
HistoryAfterFenKept(accepted, h) == h

HistoryAfterFen(accepted, h) == IF accepted THEN <<>> ELSE h

\* lines 61-71
ReadFen ==
    /\ loop = "running"
    /\ nCmds < MaxCmds
    /\ \E line \in FenLines :
        LET r == setFen(board, line.text) IN
        /\ lastLine' = line
        /\ \E b \in r[2] : board' = b
        /\ history' = HistoryAfterFen(r[1], history)
        /\ IF r[1]
           THEN /\ applied' = <<>>
                /\ before' = <<>>
                /\ basePos' = board'.pos
                /\ said' = <<"Position set.">>
           ELSE /\ said' = <<"Invalid FEN.">>
                /\ UNCHANGED <<applied, basePos, before>>
    /\ nCmds' = nCmds + 1
    /\ UNCHANGED loop
    /\ UNCHANGED handleVars

\* line 114 calls moveToSan with the board after the move, not the one the
\* move was made on: it gives some text, throws (caught at line 115, the
\* coordinate text is printed) or trips an assertion of the library
SanReports == {"text", "throws", "asserts"}

\* lines 73-141
ReadMove ==
    /\ loop = "running"
    /\ \E line \in MoveLines :
        /\ lastLine' = line
        /\ IF ~HasKings(board)
              /\ (~isUciMove(line) \/ uciToMove(board, line) # NO_MOVE)
           THEN \* move generation on a board without kings
                /\ loop' \in {"running", "crashed"}
                /\ said' = IF loop' = "crashed" THEN <<>>
                           ELSE IF isUciMove(line)
                           THEN <<"Illegal move in the current position.">>
                           ELSE <<"Invalid move format.">>
                /\ UNCHANGED <<board, history, nCmds, applied, before>>
           ELSE LET userMove == ParseMove(board, line) IN
                IF userMove = NO_MOVE
                THEN /\ said' = <<"Invalid move format.">>
                     /\ UNCHANGED <<board, history, loop, nCmds, applied,
                                    before>>
                ELSE IF ~IsLegal(board, userMove)
                THEN /\ said' = <<"Illegal move in the current position.">>
                     /\ UNCHANGED <<board, history, loop, nCmds, applied,
                                    before>>
                ELSE /\ nCmds < MaxCmds
                     /\ nCmds' = nCmds + 1
                     /\ board' = makeMove(board, userMove)
                     /\ history' = Append(history, userMove)
                     /\ applied' = Append(applied, userMove)
                     /\ before' = Append(before, board)
                     /\ \E san \in SanReports :
                          IF san = "asserts"
                          THEN loop' = "crashed" /\ said' = <<>>
                          ELSE LET over == isGameOver(board') IN
                               IF over[2] # "NONE"
                               THEN /\ said' = <<"Played">>
                                                \o GameOverText(board', over)
                                    /\ loop' = "ended"
                               ELSE /\ said' = <<"Played">>
                                    /\ loop' = "running"
    /\ UNCHANGED basePos
    /\ UNCHANGED handleVars

ConsoleNext ==
    \/ ReadEof
    \/ ReadEmpty
    \/ ReadQuit
    \/ ReadUndo
    \/ ReadFen
    \/ ReadMove

ConsoleSpec == ConsoleInit /\ [][ConsoleNext]_vars

-----------------------------------------------------------------------------
(* Properties *)

Calls(op, by) ==
    {i \in DOMAIN hidCalls : hidCalls[i].op = op /\ hidCalls[i].by = by}

Writes == Calls("write", "send") \cup Calls("write", "dtor")
DtorWrites == Calls("write", "dtor")
SendWrites == Calls("write", "send")
Closes == Calls("close", "dtor")

AllZero(seq) == \A k \in DOMAIN seq : seq[k] = 0

CanonicalReset == [ZeroPacket EXCEPT !.reserved_unk = RESET_MARKER]

\* the descriptor names a controller of the expected family
ExpectedFamily ==
    /\ ~openDeviceInfo.isNull
    /\ openDeviceInfo.vendor_id = 1356
    /\ openDeviceInfo.product_id = 2508

\* C1: every report written to the connection of a handle of the expected
\* family, the destructor's reset report included, is passed to the write
\* call with a length of exactly 32 bytes.
C1_EveryWriteIs32Bytes ==
    ExpectedFamily =>
        \A i \in Writes : hidCalls[i].len = 32 /\ Len(hidCalls[i].data) = 32

\* C2: the payload of the final report written by the destructor is the
\* canonical reset state, whatever the staging state was before teardown:
\* every payload byte zero except the reset marker.
C2_FinalReportIsCanonicalReset ==
    ExpectedFamily =>
        \A i \in DtorWrites :
            PayloadOf(hidCalls[i].buf) = PayloadOf(Bytes(CanonicalReset))

\* C3: destroying a constructed handle issues exactly one write and then
\* exactly one close, in that order, also when nothing was sent before, and
\* no write ever follows a close.
C3_OneWriteThenOneClose ==
    /\ phase = "Closed" =>
        /\ Cardinality(DtorWrites) = 1
        /\ Cardinality(Closes) = 1
        /\ Len(hidCalls) >= 2
        /\ Len(hidCalls) - 1 \in DtorWrites
        /\ Len(hidCalls) \in Closes
    /\ \A i \in Closes : \A j \in Writes : j < i

C3_Witness ==
    /\ phase = "Closed"
    /\ ExpectedFamily
    /\ SendWrites = {}
    /\ DtorWrites # {}
    /\ Closes # {}

\* C4: construction aborts whenever the vendor id is not 1356 or the product
\* id is not 2508; such a descriptor never reaches the Open state.  (A run
\* that faults on a failed allocation is not held against the statement.)
C4_IdMismatchAborts ==
    (/\ phase \notin {"Unopened", "Crashed"}
     /\ ~openDeviceInfo.isNull
     /\ \/ openDeviceInfo.vendor_id # 1356
        \/ openDeviceInfo.product_id # 2508)
        => phase = "Aborted"

\* C5: with a null descriptor or a product id other than 2508 the constructor
\* aborts before hid_open: no call at all is made on the connection.
C5_EarlyAbortMakesNoCall ==
    (/\ phase # "Unopened"
     /\ \/ openDeviceInfo.isNull
        \/ openDeviceInfo.product_id # 2508)
        => (phase = "Aborted" /\ hidCalls = <<>>)

C5_Witness ==
    /\ phase = "Aborted"
    /\ ~openDeviceInfo.isNull
    /\ openDeviceInfo.vendor_id = 1356
    /\ openDeviceInfo.product_id # 2508
    /\ stdout = <<"Controller type mismathced">>

\* C6: after construction the report id is 0x11 when the usage field holds
\* the "no usage" value and 0x05 for every other usage.
C6_ReportIdFollowsUsage ==
    (phase = "Open" /\ ExpectedFamily) =>
        controllerOutPacket.reportId =
            (IF openDeviceInfo.usage = NoUsage THEN 17 ELSE 5)

\* C7: the destructor closes the connection after its reset write whether
\* that write succeeded or failed.
C7_CloseAfterEitherOutcome ==
    \A ok \in BOOLEAN :
        (phase = "Closed" /\ \E i \in DtorWrites : hidCalls[i].ok = ok)
            => \E i \in DtorWrites : \E j \in Closes : i < j

C7_Witness ==
    /\ phase = "Closed"
    /\ ExpectedFamily
    /\ \E i \in DtorWrites : ~hidCalls[i].ok
    /\ hidCalls[Len(hidCalls)].op = "close"

\* C8: a failed reset write during teardown is surfaced: what the teardown
\* prints or reports differs from a teardown whose write succeeded.
C8_TeardownFailureSurfaced ==
    (phase = "Closed" /\ ExpectedFamily /\ \E i \in DtorWrites : ~hidCalls[i].ok)
        => \/ stdout # DtorOutput(TRUE)
           \/ \E i \in DtorWrites : \E j \in Calls("error", "dtor") : i < j

C10_UnwrittenBytesAreZero ==
    /\ (phase = "Open" /\ nOps = 0) =>
        /\ Len(PayloadOf(Bytes(controllerOutPacket))) = 31
        /\ AllZero(PayloadOf(Bytes(controllerOutPacket)))
        /\ controllerOutPacket.reportId # 0
    /\ \A i \in SendWrites :
        /\ \A k \in DOMAIN PayloadFields :
              PayloadFields[k] \notin hidCalls[i].written
                  => hidCalls[i].data[1 + k] = 0
        /\ \A k \in (2 + Len(PayloadFields))..Len(hidCalls[i].data) :
              hidCalls[i].data[k] = 0

C10_Witness ==
    \E i \in SendWrites :
        /\ ExpectedFamily
        /\ hidCalls[i].written = {"smallMotorPower", "largeMotorPower"}
        /\ hidCalls[i].data[5] = 100
        /\ hidCalls[i].data[6] = 200
        /\ hidCalls[i].data[2] = 0
        /\ Len(hidCalls[i].data) = 32

\* C11: when construction fails (null descriptor, identifier mismatch, or
\* hid_open yielding no connection) no teardown runs: no reset report is
\* written and no close is called.
C11_FailedConstructionSkipsTeardown ==
    phase = "Aborted" =>
        \A i \in DOMAIN hidCalls : hidCalls[i].op \notin {"write", "close"}

C11_Witness ==
    /\ phase = "Aborted"
    /\ ExpectedFamily
    /\ Len(hidCalls) = 2
    /\ hidCalls[1].op = "open"
    /\ ~hidCalls[1].ok
    /\ hidCalls[2].op = "error"

\* the payload fields and the flag bits a member function may store to
OwnFields(op) ==
    CASE op \in {"enableRumble", "enableLED", "enableLEDBlink"} -> {"flags"}
      [] op = "setRumBle" -> {"smallMotorPower", "largeMotorPower"}
      [] op = "setLEDColor" -> {"redLed", "greenLed", "blueLed"}
      [] op = "setLEDOnPeriod" -> {"ledFlashOnTime"}
      [] op = "setLEDOffPeriod" -> {"ledFlashOffTime"}
      [] OTHER -> {}

OwnBits(op) ==
    CASE op = "enableRumble" -> {RUMBLE_FLAG}
      [] op = "enableLED" -> {LED_FLAG}
      [] op = "enableLEDBlink" -> {BLINK_FLAG}
      [] OTHER -> {}

FlagBits == {RUMBLE_FLAG, LED_FLAG, BLINK_FLAG}

\* C12: a builder call changes only its own payload field(s) and its own
\* flag bit; the report id, every other field and the reserved bytes stay as
\* they were, and send changes nothing of the staging report.
C12_MutatorsTouchOnlyOwnFields ==
    [][(nOps' = nOps + 1) =>
          /\ controllerOutPacket'.reportId = controllerOutPacket.reportId
          /\ controllerOutPacket'.padding = controllerOutPacket.padding
          /\ \A k \in DOMAIN PayloadFields :
                PayloadFields[k] \notin OwnFields(lastOp')
                    => controllerOutPacket'[PayloadFields[k]]
                           = controllerOutPacket[PayloadFields[k]]
          /\ \A b \in FlagBits \ OwnBits(lastOp') :
                HasBit(controllerOutPacket'.flags, b)
                    <=> HasBit(controllerOutPacket.flags, b)
          /\ \A b \in OwnBits(lastOp') : HasBit(controllerOutPacket'.flags, b)
          /\ (lastOp' = "send" => controllerOutPacket' = controllerOutPacket)]_vars

C12_Witness ==
    /\ ExpectedFamily
    /\ lastOp = "setLEDColor"
    /\ controllerOutPacket.redLed = 255
    /\ controllerOutPacket.smallMotorPower = 100
    /\ controllerOutPacket.largeMotorPower = 200
    /\ \E i \in SendWrites : hidCalls[i].data[5] = 100 /\ hidCalls[i].data[7] = 0

\* C14: with copies of the handle in play, each opened connection is closed
\* at most once, each staging packet is freed at most once, and no write is
\* issued on a connection after it was closed.
C14_SharedResourcesReleasedOnce ==
    ExpectedFamily =>
        /\ Cardinality(Closes) <= 1
        /\ nFree <= 1
        /\ \A i \in Closes : \A j \in Writes : j < i

-----------------------------------------------------------------------------
(* The chess console *)

Front(h) == SubSeq(h, 1, Len(h) - 1)

\* the iteration of this step read a line of one of these kinds
Read(kinds) == lastLine'.kind \in kinds

\* the iteration of this step applied a move
AppliedMove == Read({"uci", "san"}) /\ nCmds' = nCmds + 1

\* C13: 'undo' reverts exactly the last applied move: when the history is not
\* empty (and no rejected 'fen' has reset the board under it) the board is
\* again the board that move was made on and the history has lost its last
\* entry; with an empty history board and history stay as they are.
C13_UndoRevertsLastMove ==
    [][Read({"undo"}) =>
         IF history = <<>>
         THEN UNCHANGED <<board, history>>
         ELSE /\ history' = Front(history)
              /\ board.prev # <<>> => board' = before[Len(before)]]_vars

\* an undo has taken back the second of two applied moves, a capture
C13_Witness ==
    /\ lastLine.kind = "undo"
    /\ Len(history) = 2
    /\ nCmds = 4
    /\ board.pos.sq[Sq(3, 4)] = "p"
    /\ board.pos.sq[Sq(4, 3)] = "P"

\* the line read in this step is a move that is in the legal-move list of
\* the position it is entered in
LegalLine ==
    /\ Read({"uci", "san"})
    /\ HasKings(board)
    /\ ParseMove(board, lastLine') # NO_MOVE
    /\ ParseMove(board, lastLine') \in legalmoves(board.pos)

\* C15: the board changes only through a move of the legal-move list of the
\* current position, an 'undo' with a non-empty history or a 'fen' command;
\* empty input, an unparsable move and an illegal move leave board and
\* history unchanged; and the history is always, in order, the moves applied
\* and not undone since the start position or the last successful 'fen'.
C15_BoardChangesOnlyByLegalMoveUndoFen ==
    /\ [](history = applied)
    /\ [][/\ board' # board =>
               \/ LegalLine /\ board' = makeMove(board, ParseMove(board, lastLine'))
               \/ Read({"undo"}) /\ history # <<>>
               \/ Read({"fen"})
          /\ Read({"empty"}) => UNCHANGED <<board, history>>
          /\ Read({"uci", "san"}) /\ ~LegalLine => UNCHANGED <<board, history>>
          /\ LegalLine => history' = Append(history, ParseMove(board, lastLine'))
         ]_vars

\* an illegal move has been refused after two moves had been applied
C15_Witness ==
    /\ lastLine.kind = "uci"
    /\ said = <<"Illegal move in the current position.">>
    /\ Len(history) = 2
    /\ history = applied
    /\ board.pos.sq[Sq(4, 3)] = "P"
    /\ board.pos.sq[Sq(3, 4)] = "p"

\* the board after as many 'undo' commands as the history allows
RECURSIVE UndoAll(_, _)
UndoAll(b, h) ==
    IF h = <<>> \/ b.prev = <<>> THEN b
    ELSE UndoAll(unmakeMove(b, UndoMove(h)), Front(h))

\* C16: a 'fen' command that is accepted empties the history, so that undoing
\* everything the history holds leads to the position last set and no
\* further; a 'fen' command that is rejected leaves the history unchanged.
C16_FenClearsHistory ==
    /\ [][Read({"fen"}) =>
            IF said' = <<"Position set.">>
            THEN history' = <<>> /\ board'.pos = FenPosition(lastLine'.text)
            ELSE history' = history]_vars
    /\ [](HasKings(board) =>
            /\ Len(board.prev) = Len(history)
            /\ UndoAll(board, history).pos = basePos)

\* after a move from the start position a position was set, a move was made
\* in it and taken back: the board is the position set and nothing is left
\* to undo
C16_Witness ==
    /\ lastLine.kind = "undo"
    /\ nCmds = 4
    /\ history = <<>>
    /\ basePos = FenPosition("whiteMates")
    /\ board.pos = basePos

\* the player who makes the move of this step
Mover == sideToMove(board)

\* the move applied in this step ends the game with this result
EndsGame(result) == AppliedMove /\ isGameOver(board')[2] = result

\* C17: when an applied move ends the game the loop stops, and a stopped loop
\* processes no further command ('undo' included); when the result is a loss
\* for the side to move, the winner announced is the player who made that
\* last move.
C17_GameOverStopsLoopAndNamesMover ==
    /\ [][\A result \in {"LOSE", "DRAW"} : EndsGame(result) => loop' # "running"]_vars
    /\ [][loop = "running"]_vars
    /\ [][EndsGame("LOSE") /\ loop' = "ended" =>
            /\ Len(said') = 4
            /\ said'[3] = IF Mover = "w" THEN "White wins" ELSE "Black wins"]_vars

\* black has just mated: the loop has ended and black is announced
C17_Witness ==
    /\ loop = "ended"
    /\ lastLine.kind = "uci"
    /\ sideToMove(board) = "w"
    /\ isGameOver(board) = <<"CHECKMATE", "LOSE">>
    /\ said = <<"Played", "Game over: ", "Black wins", "CHECKMATE">>

====
